---- MODULE Spec2Model ----
(***************************************************************************)
(* Time card aggregation (timecard.py, ctimecard.py, ptimecard.py).         *)
(*                                                                         *)
(* Durations are decimal hours in the source.  Here every duration is an   *)
(* integer number of ticks, HOUR ticks to the hour, with HOUR chosen so    *)
(* that a second (HOUR / 3600), a minute (HOUR / 60), every rounding       *)
(* threshold (0.125, 0.375, 0.675, 0.875) and the 1.0E-4 tolerance are all *)
(* whole numbers of ticks.  Arithmetic is exact; the binary rounding of    *)
(* Python floats is not modelled.                                          *)
(***************************************************************************)
EXTENDS Integers, Sequences, FiniteSets, TLC

VARIABLES
    totals,       \* the Totals instance: data, day_totals, project_totals, reference_date
    raw_totals,   \* history: per project, sum of the raw durations accumulated
    all_nonneg,   \* history: every accumulated duration so far was >= 0
    last,         \* history: the last call, its arguments and its outcome
    prev,         \* history: the Totals instance as it was before the last call
    calls,        \* number of calls made so far
    rx,           \* rounder harness: the number handed to the rounder
    rout,         \* rounder harness: rounder name -> <<xt, dx>> it returned
    entries,      \* order harness: the entries to process
    perm,         \* order harness: the order in which the second instance sees them
    pos,          \* order harness: index of the next entry
    totals2,      \* order harness: the second Totals instance
    hist,         \* history: what the calls so far accumulated, and the first date parsed
    log,          \* scenario harness: the add calls made so far, in order
    column,       \* column harness: the column number handed to the mappers
    names,        \* column harness: mapper name -> what it returned or raised
    dep,          \* the PkgDep instance: pkg and dep dictionaries
    dep0          \* history: the PkgDep instance as it was before the last call

vars == <<totals, raw_totals, all_nonneg, last, prev, calls,
          rx, rout, entries, perm, pos, totals2, hist, log, column, names, dep, dep0>>

----------------------------------------------------------------------------
(* Units *)

HOUR == 25 * 3600
MINUTE == HOUR \div 60
SECOND == HOUR \div 3600

\* n / d hours, in ticks
Frac(n, d) == (n * HOUR) \div d

QUARTER == Frac(25, 100)

Abs(n) == IF n < 0 THEN -n ELSE n

----------------------------------------------------------------------------
(* Bounds *)

MaxCalls == 3
MaxRows == 1
MaxEntries == 3
MaxX == 2
MaxColumn == 710
MaxLines == 4

----------------------------------------------------------------------------
(* Inputs *)

Projects == {"Alpha", "Beta"}
OtherProjects == {"Gamma"}

\* date strings "dd/mm/yyyy", as their three integer fields
GoodDates == {<<1, 6, 2024>>, <<16, 6, 2024>>}
BadDates == {<<31, 6, 2024>>}
DateStrings == GoodDates \cup BadDates

\* time strings, as the integer fields between the colons
\* "0:05:00", "0:40:00", "0:53:00", "0:-30:00" and the malformed "0:10"
GoodTimes == {<<0, 5, 0>>, <<0, 40, 0>>, <<0, 53, 0>>, <<0, -30, 0>>}
BadTimes == {<<0, 10>>}
TimeStrings == GoodTimes \cup BadTimes

----------------------------------------------------------------------------
(* Pure functions of timecard.py and ptimecard.py *)

\* math.modf: <<fractional part, integer part>>, both with the sign of x
modf(x) ==
    LET xi == IF x >= 0 THEN (x \div HOUR) * HOUR ELSE -(((-x) \div HOUR) * HOUR)
    IN <<x - xi, xi>>

closest_fraction_noband(x) ==
    LET xf == modf(x)[1]
        xi == modf(x)[2]
        xt == IF xf > Frac(875, 1000) THEN xi + HOUR
              ELSE IF xf > Frac(675, 1000) THEN xi + Frac(75, 100)
              ELSE IF xf > Frac(375, 1000) THEN xi + Frac(5, 10)
              ELSE IF xf > Frac(125, 1000) THEN xi + Frac(25, 100)
              ELSE xi + xf
        dx == IF Abs(x - xt) > Frac(1, 10000) THEN x - xt ELSE 0
    IN <<xt, dx>>

closest_fraction_down(x) ==
    LET xf == modf(x)[1]
        xi == modf(x)[2]
        xt == IF xf >= Frac(75, 100) THEN xi + Frac(75, 100)
              ELSE IF xf >= Frac(5, 10) THEN xi + Frac(5, 10)
              ELSE IF xf >= Frac(25, 100) THEN xi + Frac(25, 100)
              ELSE xi
        dx == IF Abs(x - xt) > Frac(1, 10000) THEN x - xt ELSE 0
    IN <<xt, dx>>

closest_fraction(x) ==
    LET xf == modf(x)[1]
        xi == modf(x)[2]
        xt == IF xf > Frac(875, 1000) THEN xi + HOUR
              ELSE IF xf > Frac(675, 1000) THEN xi + Frac(75, 100)
              ELSE IF xf > Frac(375, 1000) THEN xi + Frac(5, 10)
              ELSE IF xf > Frac(125, 1000) THEN xi + Frac(25, 100)
              ELSE xi
        dx == IF Abs(x - xt) > Frac(1, 10000) THEN x - xt ELSE 0
    IN <<xt, dx>>

closest_number(x) ==
    LET xf == modf(x)[1]
        xi == modf(x)[2]
        xt == IF xf > Frac(875, 1000) THEN xi + HOUR
              ELSE IF xf > Frac(675, 1000) THEN xi + Frac(75, 100)
              ELSE IF xf > Frac(375, 1000) THEN xi + Frac(5, 10)
              ELSE IF xf > Frac(125, 1000) THEN xi + Frac(25, 100)
              ELSE xi
        dx == IF Abs(x - xt) > Frac(1, 10000) THEN x - xt ELSE 0
    IN <<xt, dx>>

convert_time_centesimal(time) ==
    IF Len(time) = 3
    THEN time[1] * HOUR + time[2] * (HOUR \div 100) + time[3] * (HOUR \div 10000)
    ELSE 0

convert_time_pad(time) ==
    IF Len(time) = 3
    THEN time[1] * HOUR + time[2] * MINUTE + time[3] * SECOND
    ELSE IF Len(time) = 2 THEN time[1] * HOUR + time[2] * MINUTE
    ELSE 0

\* "h:m:s" -> decimal hours; anything that is not three integers -> 0
convert_time(time) ==
    IF Len(time) = 3
    THEN time[1] * HOUR + time[2] * MINUTE + time[3] * SECOND
    ELSE 0

\* the letters of column_name and excel_column_name
column_list ==
    <<"A", "B", "C", "D", "E", "F", "G", "H", "I",
      "J", "K", "L", "M", "N", "O", "P", "Q", "R",
      "S", "T", "U", "V", "W", "X", "Y", "Z">>

\* what a mapper does: return a name (a sequence of letters) or raise
Returns(name) == [raised |-> "none", name |-> name]
Raises(error) == [raised |-> error, name |-> <<>>]

\* timecard.column_name
column_name(column_number) ==
    IF column_number < Len(column_list)
    THEN Returns(<<column_list[column_number + 1]>>)
    ELSE Raises("ValueError")

\* ptimecard.excel_column_name without its range test: indexing column_list
\* past its end raises IndexError
excel_column_name_nocheck(column_number) ==
    LET max_columns == Len(column_list)
        r == column_number \div max_columns
    IN IF column_number < max_columns
       THEN Returns(<<column_list[column_number + 1]>>)
       ELSE IF r - 1 >= max_columns THEN Raises("IndexError")
       ELSE Returns(<<column_list[r], column_list[column_number - max_columns * r + 1]>>)

\* ptimecard.excel_column_name
excel_column_name(column_number) ==
    LET max_columns == Len(column_list)
        r == column_number \div max_columns
    IN IF column_number < max_columns
       THEN Returns(<<column_list[column_number + 1]>>)
       ELSE IF r > max_columns THEN Raises("ValueError")
       ELSE Returns(<<column_list[r], column_list[column_number - max_columns * r + 1]>>)

IsLeap(y) == (y % 4 = 0 /\ y % 100 # 0) \/ y % 400 = 0

\* calendar.monthrange(year, month)[1]
monthrange(y, m) ==
    IF m = 2 THEN (IF IsLeap(y) THEN 29 ELSE 28)
    ELSE IF m \in {4, 6, 9, 11} THEN 30 ELSE 31

\* datetime.strptime(date, '%d/%m/%Y') raises ValueError unless this holds
strptime_lenient(date) == Len(date) = 3

strptime_ok(date) ==
    /\ Len(date) = 3
    /\ date[2] \in 1..12
    /\ date[3] \in 1..9999
    /\ date[1] \in 1..monthrange(date[3], date[2])

strptime(date) == [day |-> date[1], month |-> date[2], year |-> date[3]]

----------------------------------------------------------------------------
(* class Totals *)

\* Totals.__init__ ; reference_date None is the empty sequence,
\* project_keys is the insertion order of the project_totals dict
NewTotals ==
    [data |-> <<>>, day_totals |-> <<>>, project_totals |-> <<>>,
     project_keys |-> <<>>, reference_date |-> <<>>]

DictSet(d, k, v) == [x \in DOMAIN d \cup {k} |-> IF x = k THEN v ELSE d[x]]

get_hours_of_day(T, project, day) ==
    IF day \in DOMAIN T.day_totals THEN T.day_totals[day] ELSE 0

get_hours(T, project, day) ==
    IF <<project, day>> \in DOMAIN T.data THEN T.data[<<project, day>>] ELSE 0

get_project_totals_any(T, project) ==
    IF \E p \in DOMAIN T.project_totals : T.project_totals[p][2] > 0
    THEN T.project_totals[CHOOSE p \in DOMAIN T.project_totals :
                             \A q \in DOMAIN T.project_totals :
                                T.project_totals[q][2] <= T.project_totals[p][2]]
    ELSE <<0, 0>>

get_project_totals(T, project) ==
    IF project \in DOMAIN T.project_totals THEN T.project_totals[project] ELSE <<0, 0>>

get_day_totals(T, day) ==
    IF day \in DOMAIN T.day_totals THEN T.day_totals[day] ELSE 0

RECURSIVE SumOver(_, _)
SumOver(f, S) ==
    IF S = {} THEN 0
    ELSE LET k == CHOOSE k \in S : TRUE IN f[k] + SumOver(f, S \ {k})

get_total_time(T) == SumOver(T.day_totals, DOMAIN T.day_totals)

get_project_list(T) == T.project_keys

get_number_of_days(T) ==
    IF T.reference_date # <<>>
    THEN monthrange(T.reference_date[1].year, T.reference_date[1].month)
    ELSE 0

\* the day filter of add
discarded(dt, first_half) == dt.day > 15 /\ first_half

\* the carry step of add: <<hours, new_error>> after the test on the
\* project's accumulated error
carry_keep_error(old_error, hours, new_error) ==
    IF old_error + new_error > QUARTER
    THEN <<hours + QUARTER, new_error>>
    ELSE <<hours, new_error>>

carry_ge(old_error, hours, new_error) ==
    IF old_error + new_error >= QUARTER
    THEN <<hours + QUARTER, new_error - QUARTER>>
    ELSE <<hours, new_error>>

carry_late(old_error, hours, new_error) ==
    IF old_error + new_error > 2 * QUARTER
    THEN <<hours + QUARTER, new_error - QUARTER>>
    ELSE <<hours, new_error>>

carry(old_error, hours, new_error) ==
    IF old_error + new_error > QUARTER
    THEN <<hours + QUARTER, new_error - QUARTER>>
    ELSE <<hours, new_error>>

add_project_totals(project_totals, project, hours, new_error) ==
    IF project \in DOMAIN project_totals
    THEN DictSet(project_totals, project,
                 <<project_totals[project][1] + hours,
                   project_totals[project][2] + new_error>>)
    ELSE DictSet(project_totals, project, <<hours, new_error>>)

add_day_totals_overwrite(day_totals, day, hours) == DictSet(day_totals, day, hours)

add_day_totals(day_totals, day, hours) ==
    IF day \in DOMAIN day_totals
    THEN DictSet(day_totals, day, day_totals[day] + hours)
    ELSE DictSet(day_totals, day, hours)

add_data_overwrite(data, key, hours) == DictSet(data, key, hours)

add_data(data, key, hours) ==
    IF key \in DOMAIN data
    THEN DictSet(data, key, data[key] + hours)
    ELSE DictSet(data, key, hours)

\* the reference date after add has parsed dt
set_reference_date_always(reference_date, dt) == <<dt>>

set_reference_date(reference_date, dt) ==
    IF reference_date = <<>> THEN <<dt>> ELSE reference_date

\* insertion order of the keys of project_totals after add has stored project
add_project_keys_append(project_keys, project) == Append(project_keys, project)

add_project_keys(project_keys, project) ==
    IF \E i \in 1..Len(project_keys) : project_keys[i] = project
    THEN project_keys
    ELSE Append(project_keys, project)

\* Totals.add for a date that parses: the instance after the call
Totals_add(T, project, date, time, first_half) ==
    LET dt == strptime(date)
        T1 == [T EXCEPT !.reference_date = set_reference_date(@, dt)]
    IN  IF discarded(dt, first_half) THEN T1
        ELSE
        LET r == closest_fraction(convert_time(time))
            c == carry(get_project_totals(T1, project)[2], r[1], r[2])
            hours == c[1]
            new_error == c[2]
        IN [T1 EXCEPT
              !.project_totals = add_project_totals(@, project, hours, new_error),
              !.project_keys = add_project_keys(@, project),
              !.day_totals = add_day_totals(@, dt.day, hours),
              !.data = add_data(@, <<project, dt.day>>, hours)]

----------------------------------------------------------------------------
(* yumdeps.py: class PkgDep.  Strings are strings; a dictionary is a       *)
(* function; the key '<name>.<arch>' is kept as the pair <<name, arch>>.   *)

KEY_NAME == "Name"
KEY_ARCH == "Arch"
KEY_VERSION == "Version"
KEY_RELEASE == "Release"
KEY_REPOSITORY == "Repo"
KEY_SUMMARY == "Summary"
KEY_INFO_LIST == {KEY_NAME, KEY_ARCH, KEY_VERSION, KEY_RELEASE, KEY_REPOSITORY, KEY_SUMMARY}
UNDEFINED == "undefined"

NewPkgDep == [pkg |-> <<>>, dep |-> <<>>]

PkgInfo(arch, version, release, repository, summary) ==
    [Arch |-> arch, Version |-> version, Release |-> release,
     Repo |-> repository, Summary |-> summary]

\* PkgDep.add_package: a name already in pkg is left as it is
add_package(D, pkg_name, arch, version, release, repository, summary) ==
    IF pkg_name \notin DOMAIN D.pkg
    THEN [pkg |-> DictSet(D.pkg, pkg_name, PkgInfo(arch, version, release, repository, summary)),
          dep |-> DictSet(D.dep, pkg_name, <<>>)]
    ELSE D

\* PkgDep.add_dependency: the dependency with an empty provider list
add_dependency(D, pkg_name, dep_name) ==
    IF pkg_name \in DOMAIN D.dep
    THEN IF dep_name \notin DOMAIN D.dep[pkg_name]
         THEN [D EXCEPT !.dep = DictSet(@, pkg_name, DictSet(D.dep[pkg_name], dep_name, <<>>))]
         ELSE D
    ELSE [D EXCEPT !.dep = DictSet(@, pkg_name, DictSet(<<>>, dep_name, <<>>))]

\* the getters: the value, or ValueError for an unknown package
get_info(D, pkg_name, key) ==
    IF pkg_name \in DOMAIN D.pkg
    THEN [raised |-> "none", value |-> D.pkg[pkg_name][key]]
    ELSE [raised |-> "ValueError", value |-> ""]

get_arch(D, pkg_name) == get_info(D, pkg_name, KEY_ARCH)
get_version(D, pkg_name) == get_info(D, pkg_name, KEY_VERSION)
get_release(D, pkg_name) == get_info(D, pkg_name, KEY_RELEASE)
get_repository(D, pkg_name) == get_info(D, pkg_name, KEY_REPOSITORY)
get_summary(D, pkg_name) == get_info(D, pkg_name, KEY_SUMMARY)

\* get_dependency_list: the dependency names (sorted in the code), or ValueError
get_dependency_list(D, pkg_name) ==
    IF pkg_name \in DOMAIN D.dep
    THEN [raised |-> "none", value |-> DOMAIN D.dep[pkg_name]]
    ELSE [raised |-> "ValueError", value |-> {}]

----------------------------------------------------------------------------
(* Calls *)

\* number of arguments Totals.add takes besides self
add_nparams == 4

\* A call output.add(*args): Python binds the arguments before the body runs
\* and raises TypeError when their number is not the number of parameters;
\* strptime raises ValueError on the first line of the body.
call_add(T, args) ==
    IF Len(args) # add_nparams
    THEN [totals |-> T, outcome |-> "TypeError"]
    ELSE IF ~strptime_ok(args[2])
    THEN [totals |-> T, outcome |-> "ValueError"]
    ELSE [totals |-> Totals_add(T, args[1], args[2], args[3], args[4]),
          outcome |-> IF discarded(strptime(args[2]), args[4])
                      THEN "discarded" ELSE "accumulated"]

Raised(outcome) == outcome \in {"TypeError", "ValueError"}

\* rows of the clockify report, after the unneeded columns are dropped
Rows ==
    [project : Projects \cup OtherProjects, start_date : GoodDates,
     end_date : GoodDates, hours : {<<0, 40, 0>>}]

RowSeqs == UNION {[1..n -> Rows] : n \in 0..MaxRows}

DayRanges == {<<1, 15>>, <<16, 30>>}

\* the loop of process_data from row i on, over the instance T built so far
RECURSIVE process_rows(_, _, _, _, _, _)
process_rows(T, rows, i, project_list, start_day, end_day) ==
    IF i > Len(rows) THEN [totals |-> T, outcome |-> "returned"]
    ELSE IF rows[i].project \notin project_list
    THEN [totals |-> T, outcome |-> "ValueError"]
    ELSE IF rows[i].start_date # rows[i].end_date
    THEN [totals |-> T, outcome |-> "ValueError"]
    ELSE LET a == call_add(T, <<rows[i].project, rows[i].start_date,
                                rows[i].hours, start_day, end_day>>)
         IN IF Raised(a.outcome) THEN a
            ELSE process_rows(a.totals, rows, i + 1, project_list, start_day, end_day)

NoCall ==
    [op |-> "none", project |-> "", date |-> <<>>, time |-> <<>>,
     first_half |-> FALSE, rows |-> <<>>, start_day |-> 0, end_day |-> 0,
     outcome |-> "none", day |-> 0, result |-> <<>>, args |-> <<>>]

\* nothing accumulated yet: projects in the order they were first accumulated,
\* cells and days accumulated, the first date string that parsed, and whether
\* the instance is one that process_data returned
NoHist ==
    [projects |-> <<>>, cells |-> {}, days |-> {}, first_date |-> <<>>,
     built |-> FALSE]

ZeroRaw == [p \in Projects |-> 0]

HarnessIdle ==
    /\ rx = 0
    /\ rout = <<>>
    /\ entries = <<>>
    /\ perm = <<>>
    /\ pos = 0
    /\ totals2 = NewTotals
    /\ log = <<>>
    /\ column = 0
    /\ names = <<>>
    /\ dep = NewPkgDep
    /\ dep0 = NewPkgDep

Init ==
    /\ totals = NewTotals
    /\ raw_totals = ZeroRaw
    /\ all_nonneg = TRUE
    /\ last = NoCall
    /\ prev = NewTotals
    /\ calls = 0
    /\ hist = NoHist
    /\ HarnessIdle

\* the history after an add call with the given outcome
hist_add(h, project, date, outcome) ==
    IF Raised(outcome) THEN h
    ELSE LET h1 == [h EXCEPT !.first_date = IF @ = <<>> THEN date ELSE @,
                             !.built = FALSE]
         IN IF outcome = "accumulated"
            THEN [h1 EXCEPT !.projects = IF \E i \in 1..Len(@) : @[i] = project
                                         THEN @ ELSE Append(@, project),
                            !.cells = @ \cup {<<project, date[1]>>},
                            !.days = @ \cup {date[1]}]
            ELSE h1

\* totals.add(project, date, time, first_half), the call log apart
add_step(project, date, time, first_half) ==
    LET a == call_add(totals, <<project, date, time, first_half>>)
    IN /\ calls < MaxCalls
       /\ calls' = calls + 1
       /\ prev' = totals
       /\ totals' = a.totals
       /\ last' = [NoCall EXCEPT !.op = "add", !.project = project, !.date = date,
                                 !.time = time, !.first_half = first_half,
                                 !.outcome = a.outcome]
       /\ raw_totals' = IF a.outcome = "accumulated"
                        THEN [raw_totals EXCEPT ![project] = @ + convert_time(time)]
                        ELSE raw_totals
       /\ all_nonneg' = IF a.outcome = "accumulated"
                        THEN all_nonneg /\ convert_time(time) >= 0
                        ELSE all_nonneg
       /\ hist' = hist_add(hist, project, date, a.outcome)
       /\ UNCHANGED <<rx, rout, entries, perm, pos, totals2, column, names, dep, dep0>>

\* totals.add(project, date, time, first_half)
add(project, date, time, first_half) ==
    /\ add_step(project, date, time, first_half)
    /\ UNCHANGED log

\* totals = process_data(df, project_list, start_day, end_day): a fresh
\* instance is built; when a row raises, the instance is as the loop left it
process_data(rows, project_list, start_day, end_day) ==
    LET r == process_rows(NewTotals, rows, 1, project_list, start_day, end_day)
    IN /\ calls < MaxCalls
       /\ calls' = calls + 1
       /\ prev' = NewTotals
       /\ totals' = r.totals
       /\ last' = [NoCall EXCEPT !.op = "process_data", !.rows = rows,
                                 !.start_day = start_day, !.end_day = end_day,
                                 !.outcome = r.outcome]
       /\ raw_totals' = ZeroRaw
       /\ all_nonneg' = TRUE
       /\ hist' = [NoHist EXCEPT !.built = (r.outcome = "returned")]
       /\ UNCHANGED <<rx, rout, entries, perm, pos, totals2, log, column, names, dep, dep0>>

Next ==
    \/ \E project \in Projects, date \in DateStrings, time \in TimeStrings,
          first_half \in BOOLEAN : add(project, date, time, first_half)
    \/ \E rows \in RowSeqs, range \in DayRanges :
          process_data(rows, Projects, range[1], range[2])

Spec == Init /\ [][Next]_vars

----------------------------------------------------------------------------
(* Reading the instance: add calls over two months, and the lookups.       *)

ReadDates == {<<1, 6, 2024>>, <<16, 2, 2023>>} \cup BadDates
ReadTimes == {<<0, 40, 0>>} \cup BadTimes
ReadDays == {1, 16}

\* a lookup changes nothing; the value it returns is recorded in last
lookup(op, project, day, result) ==
    /\ calls < MaxCalls
    /\ calls' = calls + 1
    /\ prev' = totals
    /\ last' = [NoCall EXCEPT !.op = op, !.project = project, !.day = day,
                              !.outcome = "returned", !.result = result]
    /\ UNCHANGED <<totals, raw_totals, all_nonneg, hist, rx, rout, entries, perm,
                   pos, totals2, log, column, names, dep, dep0>>

call_get_hours(project, day) ==
    lookup("get_hours", project, day, get_hours(totals, project, day))

call_get_project_totals(project) ==
    lookup("get_project_totals", project, 0, get_project_totals(totals, project))

call_get_day_totals(day) ==
    lookup("get_day_totals", "", day, get_day_totals(totals, day))

call_get_number_of_days ==
    lookup("get_number_of_days", "", 0, get_number_of_days(totals))

NextRead ==
    \/ \E project \in Projects, date \in ReadDates, time \in ReadTimes,
          first_half \in BOOLEAN : add(project, date, time, first_half)
    \/ \E project \in Projects \cup OtherProjects, day \in ReadDays :
          call_get_hours(project, day)
    \/ \E project \in Projects \cup OtherProjects : call_get_project_totals(project)
    \/ \E day \in ReadDays : call_get_day_totals(day)
    \/ call_get_number_of_days

SpecRead == Init /\ [][NextRead]_vars

----------------------------------------------------------------------------
(* ctimecard.write_timesheet.  A sheet is a function from <<row, column>>  *)
(* to cells, rows numbered from 1 as in the formulas, columns from 0 as in *)
(* column_name.                                                            *)

Number(v) == [kind |-> "number", value |-> v, range |-> <<>>]
Text == [kind |-> "text", value |-> 0, range |-> <<>>]
\* '=sum(<c1><r1>:<c2><r2>)', the columns as the letters written
Formula(c1, r1, c2, r2) == [kind |-> "formula", value |-> 0, range |-> <<c1, r1, c2, r2>>]

\* clockify_projects.txt, in file order
master_project_list == <<"Alpha", "Beta">>

\* sorted_project_list of the main program
sorted_project_list(T) ==
    SelectSeq(master_project_list,
              LAMBDA p : \E i \in 1..Len(get_project_list(T)) : get_project_list(T)[i] = p)

\* the column numbers write_timesheet hands to column_name
columns_named(project_list, len_day_list) ==
    (IF project_list # <<>> THEN {len_day_list} ELSE {})
    \cup 1..len_day_list \cup {len_day_list + 2, len_day_list + 3}

\* the replacement of zero data cells by EMPTY_CELL: a number below
\* 0.000001 hours, which is 9/100 of a tick
empty_cell(cell) ==
    IF cell.kind = "number" /\ cell.value * 100 < 9 THEN Text ELSE cell

\* the cells of the workbook that is saved
sheet_cells(T, project_list, start_day, end_day) ==
    LET len_day_list == end_day - start_day + 1
        k == Len(project_list)
        n_rows == Len(get_project_list(T)) + 3
        name(c) == column_name(c).name
        written(r, c) ==
            IF c = 0 THEN Text
            ELSE IF r = 1
            THEN (IF c <= len_day_list THEN Number(start_day + c - 1) ELSE Text)
            ELSE IF r <= k + 1
            THEN (IF c <= len_day_list
                  THEN Number(get_hours(T, project_list[r - 1], start_day + c - 1))
                  ELSE IF c = len_day_list + 1
                  THEN Number(get_project_totals(T, project_list[r - 1])[1])
                  ELSE IF c = len_day_list + 2
                  THEN Number(get_project_totals(T, project_list[r - 1])[2])
                  ELSE Formula(<<"B">>, r, name(len_day_list), r))
            ELSE IF r = k + 2
            THEN (IF c <= len_day_list THEN Number(get_day_totals(T, start_day + c - 1))
                  ELSE IF c = len_day_list + 1 THEN Number(get_total_time(T))
                  ELSE Text)
            ELSE (IF c = len_day_list + 1 THEN Text
                  ELSE Formula(name(c), 2, name(c), n_rows - 2))
    IN [rc \in (1..(k + 3)) \X (0..(len_day_list + 3)) |->
            IF rc[1] <= k + 1 /\ rc[2] <= len_day_list
            THEN empty_cell(written(rc[1], rc[2]))
            ELSE written(rc[1], rc[2])]

\* write_timesheet(totals, project_list, start_day, end_day, file_name):
\* the workbook, unless a column_name call raises
write_timesheet_result(T, project_list, start_day, end_day) ==
    IF \E c \in columns_named(project_list, end_day - start_day + 1) :
          column_name(c).raised # "none"
    THEN [outcome |-> "ValueError", cells |-> <<>>]
    ELSE [outcome |-> "saved", cells |-> sheet_cells(T, project_list, start_day, end_day)]

SheetRanges == DayRanges \cup {<<1, 31>>}

write_timesheet(project_list, start_day, end_day) ==
    LET w == write_timesheet_result(totals, project_list, start_day, end_day)
    IN /\ calls < MaxCalls
       /\ calls' = calls + 1
       /\ prev' = totals
       /\ last' = [NoCall EXCEPT !.op = "write_timesheet", !.start_day = start_day,
                                 !.end_day = end_day, !.outcome = w.outcome,
                                 !.result = w.cells]
       /\ UNCHANGED <<totals, raw_totals, all_nonneg, hist, rx, rout, entries, perm,
                      pos, totals2, log, column, names, dep, dep0>>

NextSheet ==
    \/ \E project \in Projects, date \in GoodDates, first_half \in BOOLEAN :
          add(project, date, <<0, 40, 0>>, first_half)
    \/ \E rows \in RowSeqs, range \in DayRanges :
          process_data(rows, Projects, range[1], range[2])
    \/ \E range \in SheetRanges :
          write_timesheet(sorted_project_list(totals), range[1], range[2])

SpecSheet == Init /\ [][NextSheet]_vars

----------------------------------------------------------------------------
(* Scenarios: add calls inside the window of days 1 to 15, each recorded   *)
(* in log.                                                                 *)

ScenarioDates == {<<1, 6, 2024>>, <<2, 6, 2024>>}
\* "2:10:00", "0:10:00", "4:00:00"
ScenarioTimes == {<<2, 10, 0>>, <<0, 10, 0>>, <<4, 0, 0>>}

add_logged(project, date, time, first_half) ==
    /\ add_step(project, date, time, first_half)
    /\ log' = Append(log, <<project, date, time, first_half>>)

NextScenario ==
    \E project \in Projects, date \in ScenarioDates, time \in ScenarioTimes :
        add_logged(project, date, time, TRUE)

SpecScenario == Init /\ [][NextScenario]_vars

----------------------------------------------------------------------------
(* The rounder on its own: closest_fraction and closest_number applied to   *)
(* one number drawn from RoundInputs.                                      *)

RoundInputs ==
    {k * (HOUR \div 120) : k \in (-(120 * MaxX))..(120 * MaxX)}
    \cup {q * QUARTER + e : q \in (-(4 * MaxX))..(4 * MaxX),
                            e \in {-10, -9, -5, 5, 9, 10}}

InitRound ==
    /\ totals = NewTotals
    /\ raw_totals = ZeroRaw
    /\ all_nonneg = TRUE
    /\ last = NoCall
    /\ prev = NewTotals
    /\ calls = 0
    /\ rx \in RoundInputs
    /\ rout = <<>>
    /\ entries = <<>>
    /\ perm = <<>>
    /\ pos = 0
    /\ totals2 = NewTotals
    /\ hist = NoHist
    /\ log = <<>>
    /\ column = 0
    /\ names = <<>>
    /\ dep = NewPkgDep
    /\ dep0 = NewPkgDep

round_fraction ==
    /\ "closest_fraction" \notin DOMAIN rout
    /\ rout' = DictSet(rout, "closest_fraction", closest_fraction(rx))
    /\ UNCHANGED <<totals, raw_totals, all_nonneg, last, prev, calls,
                   rx, entries, perm, pos, totals2, hist, log, column, names, dep, dep0>>

round_number ==
    /\ "closest_number" \notin DOMAIN rout
    /\ rout' = DictSet(rout, "closest_number", closest_number(rx))
    /\ UNCHANGED <<totals, raw_totals, all_nonneg, last, prev, calls,
                   rx, entries, perm, pos, totals2, hist, log, column, names, dep, dep0>>

NextRound == round_fraction \/ round_number

SpecRound == InitRound /\ [][NextRound]_vars

----------------------------------------------------------------------------
(* Two instances fed the same entries, the second in the order perm.       *)

OrderEntries ==
    {<<project, date, time, FALSE>> :
        project \in Projects, date \in GoodDates,
        time \in {<<0, 40, 0>>, <<0, 53, 0>>}}

Orders(n) == {p \in [1..n -> 1..n] : \A i, j \in 1..n : p[i] = p[j] => i = j}

InitOrder ==
    /\ totals = NewTotals
    /\ raw_totals = ZeroRaw
    /\ all_nonneg = TRUE
    /\ last = NoCall
    /\ prev = NewTotals
    /\ calls = 0
    /\ rx = 0
    /\ rout = <<>>
    /\ entries \in [1..MaxEntries -> OrderEntries]
    /\ perm \in Orders(MaxEntries)
    /\ pos = 1
    /\ totals2 = NewTotals
    /\ hist = NoHist
    /\ log = <<>>
    /\ column = 0
    /\ names = <<>>
    /\ dep = NewPkgDep
    /\ dep0 = NewPkgDep

add_both ==
    /\ pos <= Len(entries)
    /\ totals' = call_add(totals, entries[pos]).totals
    /\ totals2' = call_add(totals2, entries[perm[pos]]).totals
    /\ pos' = pos + 1
    /\ UNCHANGED <<raw_totals, all_nonneg, last, prev, calls, rx, rout, entries, perm,
                   hist, log, column, names, dep, dep0>>

NextOrder == add_both

SpecOrder == InitOrder /\ [][NextOrder]_vars

----------------------------------------------------------------------------
(* The column mappers on their own: column_name and excel_column_name      *)
(* applied to one column number.                                           *)

InitColumn ==
    /\ totals = NewTotals
    /\ raw_totals = ZeroRaw
    /\ all_nonneg = TRUE
    /\ last = NoCall
    /\ prev = NewTotals
    /\ calls = 0
    /\ rx = 0
    /\ rout = <<>>
    /\ entries = <<>>
    /\ perm = <<>>
    /\ pos = 0
    /\ totals2 = NewTotals
    /\ hist = NoHist
    /\ log = <<>>
    /\ column \in 0..MaxColumn
    /\ names = <<>>
    /\ dep = NewPkgDep
    /\ dep0 = NewPkgDep

map_column_name ==
    /\ "column_name" \notin DOMAIN names
    /\ names' = DictSet(names, "column_name", column_name(column))
    /\ UNCHANGED <<totals, raw_totals, all_nonneg, last, prev, calls, rx, rout,
                   entries, perm, pos, totals2, hist, log, column, dep, dep0>>

map_excel_column_name ==
    /\ "excel_column_name" \notin DOMAIN names
    /\ names' = DictSet(names, "excel_column_name", excel_column_name(column))
    /\ UNCHANGED <<totals, raw_totals, all_nonneg, last, prev, calls, rx, rout,
                   entries, perm, pos, totals2, hist, log, column, dep, dep0>>

NextColumn == map_column_name \/ map_excel_column_name

SpecColumn == InitColumn /\ [][NextColumn]_vars

----------------------------------------------------------------------------
(* yumdeps.py: calls on one PkgDep instance *)

\* package keys and the information of a package
PkgNames == {<<"foo", "x86_64">>, <<"bar", "noarch">>}
PkgInfos ==
    {PkgInfo("x86_64", "1.0", "1", "base", "tool"),
     PkgInfo("noarch", "2.0", "2", "updates", "utility")}
DepNames == {"libc.so.6"}

pkg_call(op, args, D) ==
    /\ calls < MaxCalls
    /\ calls' = calls + 1
    /\ dep0' = dep
    /\ dep' = D
    /\ last' = [NoCall EXCEPT !.op = op, !.args = args, !.outcome = "returned"]
    /\ UNCHANGED <<totals, raw_totals, all_nonneg, prev, hist, rx, rout, entries,
                   perm, pos, totals2, log, column, names>>

call_add_package(pkg_name, info) ==
    pkg_call("add_package", <<pkg_name, info>>,
             add_package(dep, pkg_name, info.Arch, info.Version, info.Release,
                         info.Repo, info.Summary))

call_add_dependency(pkg_name, dep_name) ==
    pkg_call("add_dependency", <<pkg_name, dep_name>>,
             add_dependency(dep, pkg_name, dep_name))

NextPkg ==
    \/ \E pkg_name \in PkgNames, info \in PkgInfos : call_add_package(pkg_name, info)
    \/ \E pkg_name \in PkgNames, dep_name \in DepNames :
          call_add_dependency(pkg_name, dep_name)

SpecPkg == Init /\ [][NextPkg]_vars

----------------------------------------------------------------------------
(* yumdeps.py: parse_info_file.  A line is the sequence of its fields      *)
(* between the colons, each already stripped: "Summary : tool: x" is       *)
(* <<"Summary", "tool", "x">>.                                             *)

InfoLines ==
    {<<"Name", "foo">>, <<"Name", "bar">>, <<"Arch", "x86_64">>, <<"Version", "1.0">>,
     <<"Release", "1">>, <<"Repo", "base">>, <<"Summary", "tool", "x">>,
     <<"Available Packages">>}

InfoFiles == UNION {[1..n -> InfoLines] : n \in 0..MaxLines}

None == "None"

\* split_info_line: <<key, value>>, <<None, None>> for any other line;
\* words[1] of a keyword line without a colon is an IndexError
split_info_line(line) ==
    IF line[1] \in KEY_INFO_LIST
    THEN IF Len(line) >= 2
         THEN [raised |-> "none", key |-> line[1], name |-> line[2]]
         ELSE [raised |-> "IndexError", key |-> None, name |-> None]
    ELSE [raised |-> "none", key |-> None, name |-> None]

\* the locals of parse_info_file before the first line
ParseStart(D) ==
    [dep |-> D, raised |-> "none", pkg_name |-> UNDEFINED, pkg_arch |-> UNDEFINED,
     pkg_version |-> UNDEFINED, pkg_release |-> UNDEFINED,
     pkg_repository |-> UNDEFINED, pkg_summary |-> UNDEFINED]

\* one pass of the loop body of parse_info_file
parse_info_line(st, line) ==
    LET w == split_info_line(line)
    IN IF w.raised # "none" THEN [st EXCEPT !.raised = w.raised]
       ELSE IF w.key = KEY_NAME
       THEN [st EXCEPT
               !.dep = IF st.pkg_name # UNDEFINED
                       THEN add_package(st.dep, <<st.pkg_name, st.pkg_arch>>, st.pkg_arch,
                                        st.pkg_version, st.pkg_release,
                                        st.pkg_repository, st.pkg_summary)
                       ELSE st.dep,
               !.pkg_name = w.name, !.pkg_arch = UNDEFINED, !.pkg_version = UNDEFINED,
               !.pkg_release = UNDEFINED, !.pkg_repository = UNDEFINED,
               !.pkg_summary = UNDEFINED]
       ELSE IF w.key = KEY_VERSION THEN [st EXCEPT !.pkg_version = w.name]
       ELSE IF w.key = KEY_RELEASE THEN [st EXCEPT !.pkg_release = w.name]
       ELSE IF w.key = KEY_ARCH THEN [st EXCEPT !.pkg_arch = w.name]
       ELSE IF w.key = KEY_REPOSITORY THEN [st EXCEPT !.pkg_repository = w.name]
       ELSE IF w.key = KEY_SUMMARY THEN [st EXCEPT !.pkg_summary = w.name]
       ELSE st

\* the loop of parse_info_file from line i on
RECURSIVE parse_info_lines(_, _, _)
parse_info_lines(f, i, st) ==
    IF i > Len(f) \/ st.raised # "none" THEN st
    ELSE parse_info_lines(f, i + 1, parse_info_line(st, f[i]))

\* parse_info_file(f, dep) on the fresh PkgDep() of parse_files
parse_info_file(f) ==
    LET st == parse_info_lines(f, 1, ParseStart(dep))
    IN /\ calls = 0
       /\ calls' = calls + 1
       /\ dep0' = dep
       /\ dep' = st.dep
       /\ last' = [NoCall EXCEPT !.op = "parse_info_file", !.args = f,
                                 !.outcome = IF st.raised = "none" THEN "returned"
                                             ELSE st.raised]
       /\ UNCHANGED <<totals, raw_totals, all_nonneg, prev, hist, rx, rout, entries,
                      perm, pos, totals2, log, column, names>>

NextInfo == \E f \in InfoFiles : parse_info_file(f)

SpecInfo == Init /\ [][NextInfo]_vars

----------------------------------------------------------------------------
(* Vocabulary of the properties *)

SumHours(project_totals) ==
    SumOver([p \in DOMAIN project_totals |-> project_totals[p][1]], DOMAIN project_totals)

\* hours and error recorded for a project, 0 when it has no entry
HoursOf(T, p) == IF p \in DOMAIN T.project_totals THEN T.project_totals[p][1] ELSE 0
ErrorOf(T, p) == IF p \in DOMAIN T.project_totals THEN T.project_totals[p][2] ELSE 0
CellOf(T, p, d) == IF <<p, d>> \in DOMAIN T.data THEN T.data[<<p, d>>] ELSE 0
DayOf(T, d) == IF d \in DOMAIN T.day_totals THEN T.day_totals[d] ELSE 0

SameMappings(T, U) ==
    /\ T.data = U.data
    /\ T.day_totals = U.day_totals
    /\ T.project_totals = U.project_totals

\* the last call was an add that accumulated its entry
Accumulated == last.op = "add" /\ last.outcome = "accumulated"

\* rounded value and residual of the last add's duration
LastRounded == closest_fraction(convert_time(last.time))

\* the last add accumulated its entry and the carry test was met
Bumped ==
    /\ Accumulated
    /\ ErrorOf(prev, last.project) + LastRounded[2] > QUARTER

FloorHour(x) == (x \div HOUR) * HOUR

\* the threshold table of the rounder, on f = x - floor(x)
ThresholdTable(x) ==
    LET f == x - FloorHour(x)
    IN IF f > Frac(875, 1000) THEN FloorHour(x) + HOUR
       ELSE IF f > Frac(675, 1000) THEN FloorHour(x) + Frac(75, 100)
       ELSE IF f > Frac(375, 1000) THEN FloorHour(x) + Frac(5, 10)
       ELSE IF f > Frac(125, 1000) THEN FloorHour(x) + Frac(25, 100)
       ELSE FloorHour(x)

----------------------------------------------------------------------------
(* Properties *)

\* C1: sum conservation.  After any sequence of add calls the sum of the
\* day totals, which get_total_time returns, equals the sum of the hours
\* of the project totals.
C1_SumConservation == get_total_time(totals) = SumHours(totals.project_totals)

C1_Witness ==
    /\ Cardinality(DOMAIN totals.project_totals) = 2
    /\ Cardinality(DOMAIN totals.day_totals) = 2
    /\ Bumped
    /\ get_total_time(totals) > 0

\* C2: error-carry bound.  For every project, after every call, the raw
\* time accumulated and the rounded hours recorded differ by at most a
\* quarter hour, in either direction.
C2_ErrorCarryBound ==
    \A p \in Projects : Abs(raw_totals[p] - HoursOf(totals, p)) <= QUARTER

\* C3: residual accounting is exact.  For every project the recorded error
\* is the raw time accumulated minus the rounded hours recorded.
C3_ResidualExact ==
    \A p \in Projects : ErrorOf(totals, p) = raw_totals[p] - HoursOf(totals, p)

C3_Witness ==
    /\ Bumped
    /\ ErrorOf(totals, last.project) # 0
    /\ HoursOf(totals, last.project) # raw_totals[last.project]

\* C4: rounder threshold table.  For every x, negative x included, the
\* rounded value is the one the table gives for f = x - floor(x), and
\* closest_fraction and closest_number return the same result.
C4_ThresholdTable ==
    /\ "closest_fraction" \in DOMAIN rout =>
          rout["closest_fraction"][1] = ThresholdTable(rx)
    /\ "closest_number" \in DOMAIN rout =>
          rout["closest_number"][1] = ThresholdTable(rx)
    /\ DOMAIN rout = {"closest_fraction", "closest_number"} =>
          rout["closest_fraction"] = rout["closest_number"]

\* C5: nearest-quarter rounding.  For every x >= 0 the rounded value is a
\* multiple of a quarter hour at most 0.125 away from x, so no multiple of
\* a quarter hour is strictly closer.
C5_NearestQuarter ==
    \A f \in DOMAIN rout :
        rx >= 0 => /\ rout[f][1] % QUARTER = 0
                   /\ Abs(rx - rout[f][1]) <= Frac(125, 1000)

\* C6: carry step.  With e the project's own accumulated error before the
\* call and <<r, d>> the rounder's result, the cell, the day total and the
\* project's hours grow by r + 0.25 and the error by d - 0.25 exactly when
\* e + d > 0.25, and by r and d otherwise.
C6_CarryStep ==
    Accumulated =>
        LET p == last.project
            day == last.date[1]
            e == ErrorOf(prev, p)
            r == LastRounded[1]
            d == LastRounded[2]
            credit == IF e + d > QUARTER THEN r + QUARTER ELSE r
            err == IF e + d > QUARTER THEN d - QUARTER ELSE d
        IN /\ CellOf(totals, p, day) = CellOf(prev, p, day) + credit
           /\ DayOf(totals, day) = DayOf(prev, day) + credit
           /\ HoursOf(totals, p) = HoursOf(prev, p) + credit
           /\ ErrorOf(totals, p) = e + err
           /\ p \in DOMAIN totals.project_totals

C6_Witness ==
    /\ Bumped
    /\ \E q \in DOMAIN prev.project_totals :
          q # last.project /\ ErrorOf(prev, q) # ErrorOf(prev, last.project)

\* C7: day-range filter.  For every range [start_day, end_day] handed to
\* add with an entry, an entry whose day is outside the range changes no
\* mapping and an entry inside the range is accumulated.
C7_DayRangeFilter ==
    (/\ last.op = "process_data"
     /\ Len(last.rows) = 1
     /\ last.rows[1].project \in Projects
     /\ last.rows[1].start_date = last.rows[1].end_date) =>
        LET p == last.rows[1].project
            day == last.rows[1].start_date[1]
        IN IF day \in last.start_day..last.end_day
           THEN /\ <<p, day>> \in DOMAIN totals.data
                /\ day \in DOMAIN totals.day_totals
                /\ p \in DOMAIN totals.project_totals
           ELSE SameMappings(totals, prev)

\* C8: all recorded hours are quarter-hour values.  While every duration
\* accumulated was non-negative, every cell, every day total and every
\* project's hours is a non-negative multiple of a quarter hour.
C8_QuarterHours ==
    all_nonneg =>
        /\ \A k \in DOMAIN totals.data :
              totals.data[k] >= 0 /\ totals.data[k] % QUARTER = 0
        /\ \A d \in DOMAIN totals.day_totals :
              totals.day_totals[d] >= 0 /\ totals.day_totals[d] % QUARTER = 0
        /\ \A p \in DOMAIN totals.project_totals :
              totals.project_totals[p][1] >= 0 /\ totals.project_totals[p][1] % QUARTER = 0

C8_Witness ==
    /\ all_nonneg
    /\ Bumped
    /\ \E k \in DOMAIN totals.data : totals.data[k] > 0
    /\ \E p \in Projects : raw_totals[p] % QUARTER # 0

\* the order perm keeps the entries of each project in their relative order
KeepsProjectOrder ==
    \A i, j \in 1..Len(entries) :
        (i < j /\ entries[perm[i]][1] = entries[perm[j]][1]) => perm[i] < perm[j]

OrderDone == entries # <<>> /\ pos > Len(entries)

\* C9 as stated: order independence.  Processing the same entries in any
\* two orders yields identical cell, day-total and project-total mappings.
C9_OrderIndependence == OrderDone => SameMappings(totals, totals2)

\* C9 as amended: two orders that keep the entries of every project in the
\* same relative order yield identical cell, day-total and project-total
\* mappings.
C9_PerProjectOrder == (OrderDone /\ KeepsProjectOrder) => SameMappings(totals, totals2)

C9_Witness ==
    /\ OrderDone
    /\ KeepsProjectOrder
    /\ \E i \in 1..Len(entries) : perm[i] # i
    /\ Cardinality(DOMAIN totals.project_totals) = 2
    /\ \E p \in DOMAIN totals.project_totals : totals.project_totals[p][1] > 0

\* C10: a failing add does not corrupt state.  When the date string does
\* not parse, the call raises and the cell mapping, the day totals, the
\* project totals and the reference date are what they were before it.
C10_FailingAddKeepsState ==
    (last.op = "add" /\ last.date \in BadDates) =>
        /\ last.outcome = "ValueError"
        /\ totals = prev

C10_Witness ==
    /\ last.op = "add"
    /\ last.date \in BadDates
    /\ last.outcome = "ValueError"
    /\ prev.project_totals # <<>>
    /\ prev.reference_date # <<>>

\* the widest timesheet: the project column, 31 day columns, then Totals,
\* Errors and Formulas, numbered from 0
LastTimesheetColumn == 31 + 3

\* the last double-letter column, "ZZ"
LastSupportedColumn == 26 * 26 + 26 - 1

\* spreadsheet numbering of the zero-based column n, for n up to "ZZ"
SpreadsheetName(n) ==
    IF n < 26 THEN <<column_list[n + 1]>>
    ELSE <<column_list[n \div 26], column_list[(n % 26) + 1]>>

\* C12: the column mapper covers the timesheet width.  For every column
\* index from 0 to 34 the mapper the timesheet writer uses, column_name,
\* returns a name and does not raise.
C12_MapperCoversTimesheet ==
    ("column_name" \in DOMAIN names /\ column <= LastTimesheetColumn) =>
        names["column_name"].raised = "none"

\* C13: column mapping follows spreadsheet numbering.  0 maps to "A", 25 to
\* "Z", 26 to "AA", every index n >= 26 up to 701 to letter[n div 26 - 1]
\* followed by letter[n mod 26], and distinct indices get distinct names.
C13_SpreadsheetNumbering ==
    \A f \in DOMAIN names :
        column <= LastSupportedColumn =>
            /\ names[f] = Returns(SpreadsheetName(column))
            /\ \A m \in 0..LastSupportedColumn :
                  m # column => names[f].name # SpreadsheetName(m)

\* C14: an unsupported column index is an error.  For every column index
\* greater than 701 the mapper raises ValueError instead of returning a name.
C14_UnsupportedColumnRaises ==
    \A f \in DOMAIN names :
        column > LastSupportedColumn => names[f] = Raises("ValueError")

C14_Witness ==
    /\ column > LastSupportedColumn
    /\ DOMAIN names = {"column_name", "excel_column_name"}
    /\ names["excel_column_name"].raised = "ValueError"

\* the elements of a sequence
Range(seq) == {seq[i] : i \in 1..Len(seq)}

\* C15: project list.  get_project_list holds exactly the projects that have
\* an accumulated entry, each once, in the order of their first accumulation.
C15_ProjectList ==
    /\ get_project_list(totals) = hist.projects
    /\ Range(get_project_list(totals)) = {k[1] : k \in hist.cells}
    /\ \A i, j \in 1..Len(get_project_list(totals)) :
          get_project_list(totals)[i] = get_project_list(totals)[j] => i = j

C15_Witness ==
    /\ get_project_list(totals) = <<"Beta", "Alpha">>
    /\ Accumulated
    /\ last.project = "Beta"
    /\ get_project_list(prev) = <<"Beta", "Alpha">>

IsLookup ==
    last.op \in {"get_hours", "get_project_totals", "get_day_totals", "get_number_of_days"}

\* C16: missing lookups return zero sentinels.  get_hours returns 0 for a
\* cell with no accumulated entry, get_project_totals (0, 0) for a project
\* never accumulated, get_day_totals 0 for a day with no entry; no lookup
\* raises or adds a key to a mapping.
C16_MissingLookups ==
    /\ (last.op = "get_hours" /\ <<last.project, last.day>> \notin hist.cells) =>
          last.result = 0
    /\ (last.op = "get_project_totals" /\ last.project \notin Range(hist.projects)) =>
          last.result = <<0, 0>>
    /\ (last.op = "get_day_totals" /\ last.day \notin hist.days) =>
          last.result = 0
    /\ IsLookup => (last.outcome = "returned" /\ totals = prev)

C16_Witness ==
    /\ last.op = "get_hours"
    /\ <<last.project, last.day>> \notin hist.cells
    /\ last.day \in hist.days
    /\ last.project \in Range(hist.projects)
    /\ last.result = 0

\* C17: reference date and day count.  get_number_of_days returns 0 before
\* any add; after the first add whose date parses it returns the number of
\* days of that entry's month and year, whatever later calls do, also when
\* that first entry was discarded by the day filter.
C17_NumberOfDays ==
    /\ get_number_of_days(totals) =
          IF hist.first_date = <<>> THEN 0
          ELSE monthrange(hist.first_date[3], hist.first_date[2])
    /\ last.op = "get_number_of_days" => last.result = get_number_of_days(prev)

C17_Witness ==
    /\ hist.first_date = <<16, 2, 2023>>
    /\ 16 \notin hist.days
    /\ Accumulated
    /\ last.date = <<1, 6, 2024>>
    /\ get_number_of_days(totals) = 28

\* C18: rounding idempotence.  For every x whose fractional part is 0, 0.25,
\* 0.5 or 0.75 the rounder returns (x, 0); hence the rounder applied to its
\* own rounded output returns that output with zero residual.
C18_RoundingIdempotence ==
    \A f \in DOMAIN rout :
        /\ rx % QUARTER = 0 => rout[f] = <<rx, 0>>
        /\ closest_fraction(rout[f][1]) = <<rout[f][1], 0>>
        /\ closest_number(rout[f][1]) = <<rout[f][1], 0>>

\* the three entries of the end-to-end scenario, window days 1 to 15
Scenario19 ==
    << <<"Alpha", <<1, 6, 2024>>, <<2, 10, 0>>, TRUE>>,
       <<"Alpha", <<1, 6, 2024>>, <<0, 10, 0>>, TRUE>>,
       <<"Beta", <<2, 6, 2024>>, <<4, 0, 0>>, TRUE>> >>

\* the figures of the scenario other than Alpha's error
Scenario19Hours ==
    /\ get_hours(totals, "Alpha", 1) = Frac(25, 10)
    /\ get_project_totals(totals, "Alpha")[1] = Frac(25, 10)
    /\ get_hours(totals, "Beta", 2) = 4 * HOUR
    /\ get_day_totals(totals, 1) = Frac(25, 10)
    /\ get_total_time(totals) = Frac(65, 10)

\* C19 as stated: end-to-end scenario.  After the three entries Alpha has
\* 2.5 hours on day 1 and in total with an error of about 0, Beta 4.0 on
\* day 2, day 1 totals 2.5 and the grand total is 6.5.
C19_Scenario ==
    log = Scenario19 =>
        /\ Scenario19Hours
        /\ Abs(get_project_totals(totals, "Alpha")[2]) <= Frac(1, 100)

\* C19 as amended: the same figures, but Alpha's accumulated error is -1/6
\* hour (2:20 of raw time recorded as 2.5 hours), not about 0.
C19_ScenarioError ==
    log = Scenario19 =>
        /\ Scenario19Hours
        /\ get_project_totals(totals, "Alpha")[2] = -Frac(1, 6)

C19_Witness ==
    /\ log = Scenario19
    /\ get_project_list(totals) = <<"Alpha", "Beta">>
    /\ get_total_time(totals) = Frac(65, 10)

\* n ten-minute entries for one project on one day
TenMinutes(project, date, n) == [i \in 1..n |-> <<project, date, <<0, 10, 0>>, TRUE>>]

\* C20 as stated: residual-carry scenario.  Three ten-minute entries for one
\* project on one day each round to 0 hours with a positive residual, one
\* of the three calls credits the extra quarter hour, and the project's
\* total after the third is 0.25 hours.
C20_ResidualCarry ==
    \A p \in Projects, d \in ScenarioDates :
        /\ log = TenMinutes(p, d, 1) =>
              (HoursOf(totals, p) = 0 /\ ErrorOf(totals, p) > 0)
        /\ log = TenMinutes(p, d, 3) => HoursOf(totals, p) = QUARTER

\* C20 as amended: each of the three ten-minute entries rounds to 0.25 hours
\* with a residual of -1/12 hour, no call credits an extra quarter hour, and
\* after the third call the project's total is 0.75 hours with an
\* accumulated error of -0.25.
C20_TenMinuteEntries ==
    \A p \in Projects, d \in ScenarioDates, n \in 1..3 :
        log = TenMinutes(p, d, n) =>
            /\ HoursOf(totals, p) = n * QUARTER
            /\ CellOf(totals, p, d[1]) = n * QUARTER
            /\ ErrorOf(totals, p) = -(n * Frac(1, 12))

C20_Witness ==
    /\ log = TenMinutes("Alpha", <<1, 6, 2024>>, 3)
    /\ HoursOf(totals, "Alpha") = Frac(75, 100)
    /\ ErrorOf(totals, "Alpha") = -QUARTER

\* what a spreadsheet makes of a column name: "A" is column 0, "AA" column 26
LetterIndex(l) == CHOOSE i \in 1..26 : column_list[i] = l
ColumnIndex(name) ==
    IF Len(name) = 1 THEN LetterIndex(name[1]) - 1
    ELSE 26 * LetterIndex(name[1]) + LetterIndex(name[2]) - 1

\* the cells a formula's range covers
RangeCells(cells, range) ==
    {rc \in DOMAIN cells : /\ rc[1] \in range[2]..range[4]
                           /\ rc[2] \in ColumnIndex(range[1])..ColumnIndex(range[3])}

\* the value a spreadsheet shows for a cell: text counts as 0 in a sum
RECURSIVE Evaluate(_, _)
Evaluate(cells, rc) ==
    IF cells[rc].kind = "number" THEN cells[rc].value
    ELSE IF cells[rc].kind = "text" THEN 0
    ELSE LET S == RangeCells(cells, cells[rc].range)
         IN SumOver([x \in S |-> Evaluate(cells, x)], S)

\* C11: formula references reproduce the engine's totals.  For every
\* instance process_data built and every day range given to write_timesheet,
\* each project row's sum formula evaluates to the project's total hours,
\* each day column's formula covers exactly the project rows and evaluates
\* to the day total, and the grand-total formula to get_total_time.
C11_FormulasReproduceTotals ==
    (last.op = "write_timesheet" /\ hist.built) =>
        /\ last.outcome = "saved"
        /\ LET cells == last.result
               project_list == sorted_project_list(totals)
               k == Len(project_list)
               len_day_list == last.end_day - last.start_day + 1
           IN /\ \A i \in 1..k :
                    Evaluate(cells, <<i + 1, len_day_list + 3>>) =
                        get_project_totals(totals, project_list[i])[1]
              /\ \A c \in 1..len_day_list :
                    /\ cells[<<k + 3, c>>].kind = "formula"
                    /\ cells[<<k + 3, c>>].range[2]..cells[<<k + 3, c>>].range[4]
                          = 2..(k + 1)
                    /\ Evaluate(cells, <<k + 3, c>>) =
                          get_day_totals(totals, last.start_day + c - 1)
              /\ Evaluate(cells, <<k + 3, len_day_list + 3>>) = get_total_time(totals)

\* C21: add_package on an existing name overwrites.  After a second
\* add_package with the same name and different arch, version, release,
\* repository and summary, the five getters return the values of the second
\* call and the package has no dependencies.
C21_AddPackageOverwrites ==
    LET pkg_name == last.args[1]
        info == last.args[2]
    IN (/\ last.op = "add_package"
        /\ pkg_name \in DOMAIN dep0.pkg
        /\ \A key \in DOMAIN info : dep0.pkg[pkg_name][key] # info[key]) =>
          /\ get_arch(dep, pkg_name) = [raised |-> "none", value |-> info.Arch]
          /\ get_version(dep, pkg_name) = [raised |-> "none", value |-> info.Version]
          /\ get_release(dep, pkg_name) = [raised |-> "none", value |-> info.Release]
          /\ get_repository(dep, pkg_name) = [raised |-> "none", value |-> info.Repo]
          /\ get_summary(dep, pkg_name) = [raised |-> "none", value |-> info.Summary]
          /\ get_dependency_list(dep, pkg_name) = [raised |-> "none", value |-> {}]

\* the lines of an info file that name a package, and the lines that
\* follow one of them up to the next
NameLines(f) == {i \in 1..Len(f) : f[i][1] = KEY_NAME}
BlockOf(f, i) == {j \in (i + 1)..Len(f) : \A k \in (i + 1)..j : f[k][1] # KEY_NAME}

\* the text after the first colon of a line, as its fields
TextOf(line) == Tail(line)

\* the text of the last line with the given keyword in the block of the
\* Name line i, UNDEFINED when the block has none
FieldOf(f, i, key) ==
    LET S == {j \in BlockOf(f, i) : f[j][1] = key}
    IN IF S = {} THEN <<UNDEFINED>>
       ELSE TextOf(f[CHOOSE j \in S : \A k \in S : k <= j])

\* the name/arch pairs of the file are distinct
DistinctPairs(f) ==
    \A i, j \in NameLines(f) :
        (TextOf(f[i]) = TextOf(f[j]) /\ FieldOf(f, i, KEY_ARCH) = FieldOf(f, j, KEY_ARCH))
            => i = j

\* the package of the Name line i is registered under name.arch with the
\* values of its own block
Registered(D, f, i) ==
    \E k \in DOMAIN D.pkg :
        /\ <<k[1]>> = TextOf(f[i])
        /\ <<k[2]>> = FieldOf(f, i, KEY_ARCH)
        /\ \A key \in KEY_INFO_LIST \ {KEY_NAME} :
              <<D.pkg[k][key]>> = FieldOf(f, i, key)

\* C25: parse_info_file registers every package of the stream.  For a file
\* with n Name lines of distinct name/arch pairs, the PkgDep object holds n
\* packages after the call, the last one of the file included, each under
\* name.arch with the Arch, Version, Release, Repo and Summary values that
\* followed its own Name line, UNDEFINED for those that did not appear.
C25_EveryPackageRegistered ==
    (last.op = "parse_info_file" /\ DistinctPairs(last.args)) =>
        /\ last.outcome = "returned"
        /\ Cardinality(DOMAIN dep.pkg) = Cardinality(NameLines(last.args))
        /\ \A i \in NameLines(last.args) : Registered(dep, last.args, i)

\* the cells of a project and the cells of a day
CellsOfProject(T, p) == {k \in DOMAIN T.data : k[1] = p}
CellsOfDay(T, d) == {k \in DOMAIN T.data : k[2] = d}

\* C22: the cell matrix agrees with both margins.  After any sequence of
\* add calls the cells of every project sum to the hours of its project
\* total, the cells of every day sum to its day total, and every cell key
\* pairs a project-totals key with a day-totals key.
C22_CellMatrixMargins ==
    /\ \A p \in DOMAIN totals.project_totals :
          SumOver(totals.data, CellsOfProject(totals, p)) = totals.project_totals[p][1]
    /\ \A d \in DOMAIN totals.day_totals :
          SumOver(totals.data, CellsOfDay(totals, d)) = totals.day_totals[d]
    /\ \A k \in DOMAIN totals.data :
          k[1] \in DOMAIN totals.project_totals /\ k[2] \in DOMAIN totals.day_totals

C22_Witness ==
    /\ \E p \in Projects : Cardinality(CellsOfProject(totals, p)) = 2
    /\ \E d \in DOMAIN totals.day_totals : Cardinality(CellsOfDay(totals, d)) = 2
    /\ \A k \in DOMAIN totals.data : totals.data[k] > 0

\* C23: one-sided carry bound.  While every duration accumulated is
\* non-negative, the accumulated error of every project is at most a
\* quarter hour after every call, and a call adds to the rounded value
\* either nothing or exactly one quarter hour.
C23_OneSidedCarry ==
    all_nonneg =>
        /\ \A p \in Projects : ErrorOf(totals, p) <= QUARTER
        /\ Accumulated =>
              HoursOf(totals, last.project) - HoursOf(prev, last.project) - LastRounded[1]
                  \in {0, QUARTER}

C23_Witness ==
    /\ all_nonneg
    /\ Accumulated
    /\ ErrorOf(prev, last.project) + LastRounded[2] > QUARTER
    /\ ErrorOf(totals, last.project) > 0
    /\ ErrorOf(totals, last.project) <= QUARTER

\* the last call was an add with a malformed duration and a valid date
\* that the day filter lets through
MalformedAdd ==
    /\ last.op = "add"
    /\ last.time \in BadTimes
    /\ last.date \in GoodDates
    /\ ~(last.date[1] > 15 /\ last.first_half)

\* C24: a malformed duration is zero time, not an error.  Such an add does
\* not raise; the project is in project_totals and in get_project_list,
\* the day in day_totals and the cell in data, and each has grown by the
\* rounded value of 0 plus the carry bump, if any.
C24_MalformedDurationIsZero ==
    MalformedAdd =>
        LET p == last.project
            d == last.date[1]
            bump == IF ErrorOf(prev, p) + 0 > QUARTER THEN QUARTER ELSE 0
        IN /\ last.outcome = "accumulated"
           /\ p \in DOMAIN totals.project_totals
           /\ p \in Range(get_project_list(totals))
           /\ d \in DOMAIN totals.day_totals
           /\ <<p, d>> \in DOMAIN totals.data
           /\ HoursOf(totals, p) = HoursOf(prev, p) + 0 + bump
           /\ DayOf(totals, d) = DayOf(prev, d) + 0 + bump
           /\ CellOf(totals, p, d) = CellOf(prev, p, d) + 0 + bump

C24_Witness ==
    /\ MalformedAdd
    /\ last.outcome = "accumulated"
    /\ last.project \notin DOMAIN prev.project_totals
    /\ last.project \in DOMAIN totals.project_totals
    /\ <<last.project, last.date[1]>> \in DOMAIN totals.data

====
